---- MODULE Spec2Model ----
(***************************************************************************)
(* A model of the x402 market-data gateway: the pricing config store       *)
(* (pricing.ts), the symbol directory (symbols.ts), the route registration *)
(* of the Express app (server.ts) and the purchase handler                 *)
(* (routes/purchase.ts).                                                   *)
(*                                                                         *)
(* Numbers.  A config number (basePriceDollars, multiplier) is held as an  *)
(* integer count of hundredths; a price is held in integer cents.  The     *)
(* product of three config numbers is then a count of 1/Hundred^3 dollars, *)
(* and Math.round(dollars * 100) is floor(x + 1/2) of that product in      *)
(* cents.  NaN is a value of its own.                                      *)
(*                                                                         *)
(* Strings.  Keys of the config (asset types, channels, duration paths)    *)
(* are TLA+ strings.  Symbols and tickers, which the code cuts and matches *)
(* character by character, are sequences of one-character strings.        *)
(*                                                                         *)
(* Objects.  A JavaScript object is a function from its own keys; reading  *)
(* obj[key] goes through Get, which like JavaScript also finds the         *)
(* properties every plain object inherits from Object.prototype.           *)
(***************************************************************************)
EXTENDS Integers, Sequences, FiniteSets, TLC

VARIABLES
    phase,        \* where the process is: boot, loaded, ingested, listening, aborted
    watching,     \* whether fs.watch was established for pricing.json
    current,      \* pricing.ts `current`: the pricing snapshot, or Null
    loaded,       \* history: every document value loadConfig has returned so far
    notice,       \* history: the last file-change notice the watcher processed
    catalog,      \* history: the array the symbols API returned to initSymbols
    byAssetType,  \* symbols.ts `byAssetType`: assetType -> ticker -> TickerInfo
    routes,       \* server.ts `routes`: the RouteConfigs registered by createApp
    req,          \* the request in flight, or NoReq
    res,          \* the last response sent, or NoRes
    audit,        \* the 'Purchase completed' records written by the purchase logger
    served        \* how many requests were received

vars == <<phase, watching, current, loaded, notice, catalog,
          byAssetType, routes, req, res, audit, served>>

----------------------------------------------------------------------------
(* Bounds of the model *)

MaxRequests == 1

MaxCatalog == 2

----------------------------------------------------------------------------
(* JavaScript values *)

Undefined == [undefined |-> TRUE]

Null == [null |-> TRUE]

\* What obj[key] yields for a key the object does not own but inherits
\* (a function of Object.prototype): truthy, with no property of ours.
Inherited == [inherited |-> TRUE]

NaN == [nan |-> TRUE]

\* Names every plain object inherits; one representative.
ObjectPrototypeKeys == {"constructor"}

\* The same inherited name as a character string.
ProtoTicker == <<"v", "a", "l", "u", "e", "O", "f">>

\* obj[key], for an object keyed by config keys
Get(obj, key) ==
    IF key \in DOMAIN obj THEN obj[key]
    ELSE IF key \in ObjectPrototypeKeys THEN Inherited
    ELSE Undefined

\* obj[key], for an object keyed by tickers
GetTicker(obj, key) ==
    IF key \in DOMAIN obj THEN obj[key]
    ELSE IF key = ProtoTicker THEN Inherited
    ELSE Undefined

\* the elements of an array
Range(seq) == {seq[i] : i \in 1..Len(seq)}

\* !v
Falsy(v) == v = Undefined \/ v = Null

\* Object.keys(obj)
Keys(obj) == DOMAIN obj

\* A number, as a value that can stand where undefined or NaN can
Num(n) == [num |-> n]

IsNum(v) == "num" \in DOMAIN v

\* v.field, for a numeric field
NumField(v, name) == IF name \in DOMAIN v THEN Num(v[name]) ELSE Undefined

----------------------------------------------------------------------------
(* pricing.ts *)

Hundred == 100

\* a * b * c; NaN if one of them is not a number
Times3(a, b, c) ==
    IF IsNum(a) /\ IsNum(b) /\ IsNum(c) THEN Num(a.num * b.num * c.num) ELSE NaN

RoundTruncating(p) ==
    IF IsNum(p) THEN Num(p.num \div (Hundred * Hundred)) ELSE NaN

\* Math.round(dollars * 100): the product counts 1/Hundred^3 dollars, that is
\* 1/Hundred^2 cents; Math.round is floor(x + 1/2).  The result counts cents.
RoundToCents(p) ==
    IF IsNum(p)
    THEN Num((2 * p.num + Hundred * Hundred) \div (2 * Hundred * Hundred))
    ELSE NaN

\* `$${rounded.toFixed(2)}`
Formatted(rounded) ==
    IF IsNum(rounded)
    THEN [sym |-> "$", whole |-> rounded.num \div Hundred,
          d1 |-> (rounded.num % Hundred) \div 10, d2 |-> rounded.num % 10]
    ELSE [sym |-> "$", nan |-> TRUE]

\* pricingSchema: three sections, each non-empty, every number positive
pricingSchema(v) ==
    /\ Len(v.durations) >= 1
    /\ \A i \in 1..Len(v.durations) : v.durations[i].basePriceDollars > 0
    /\ Keys(v.assetTypes) # {}
    /\ \A k \in Keys(v.assetTypes) : v.assetTypes[k].multiplier > 0
    /\ Keys(v.channels) # {}
    /\ \A k \in Keys(v.channels) : v.channels[k].multiplier > 0

loadConfigAcceptAll(doc) ==
    IF doc.kind = "json" THEN doc.value ELSE Null

\* loadConfig: read, JSON.parse, pricingSchema.parse; Null on any failure
loadConfig(doc) ==
    IF doc.kind = "json" /\ pricingSchema(doc.value) THEN doc.value ELSE Null

\* cfg.durations.find((d) => d.path === durationPath)
FindDuration(cfg, durationPath) ==
    LET hits == {i \in 1..Len(cfg.durations) : cfg.durations[i].path = durationPath}
    IN IF hits = {} THEN Undefined
       ELSE cfg.durations[CHOOSE i \in hits : \A j \in hits : i <= j]

\* computePrice against a given snapshot
computePriceIn(cfg, assetType, channel, durationPath) ==
    LET at == Get(cfg.assetTypes, assetType)
        ch == Get(cfg.channels, channel)
        dur == FindDuration(cfg, durationPath)
    IN IF Falsy(at) \/ Falsy(ch) \/ Falsy(dur) THEN Undefined
       ELSE LET dollars == Times3(Num(dur.basePriceDollars),
                                  NumField(at, "multiplier"),
                                  NumField(ch, "multiplier"))
                rounded == RoundToCents(dollars)
            IN [dollars |-> rounded, formatted |-> Formatted(rounded)]

getPricing == current

getAssetTypes == getPricing.assetTypes

getChannels == getPricing.channels

getDurations == getPricing.durations

computePrice(assetType, channel, durationPath) ==
    computePriceIn(getPricing, assetType, channel, durationPath)

\* Object.keys(obj): own keys in insertion order, which the model takes to be
\* the order of KeyOrder
KeyOrder == <<"crypto", "commodity", "metal", "fixed", "realtime">>

KeysInOrder(obj) == SelectSeq(KeyOrder, LAMBDA k : k \in DOMAIN obj)

\* `/v1/purchase/${assetType}/${channel}/${dur.path}`
RoutePath(assetType, channel, durationPath) ==
    <<"v1", "purchase", assetType, channel, durationPath>>

PricedCombosFirstTier(cfg, ats, chs) ==
    LET durs == SubSeq(cfg.durations, 1, 1)
        nc == Len(chs)
        nd == Len(durs)
        cand == [i \in 1..(Len(ats) * nc * nd) |->
                   LET a == ats[((i - 1) \div (nc * nd)) + 1]
                       c == chs[(((i - 1) \div nd) % nc) + 1]
                       d == durs[((i - 1) % nd) + 1].path
                   IN [assetType |-> a, channel |-> c, duration |-> d,
                       price |-> computePriceIn(cfg, a, c, d)]]
    IN SelectSeq(cand, LAMBDA r : ~Falsy(r.price))

\* for (at of ats) for (ch of chs) for (dur of cfg.durations): the combinations
\* computePrice prices, each with its price, in the order of the loops
PricedCombos(cfg, ats, chs) ==
    LET durs == cfg.durations
        nc == Len(chs)
        nd == Len(durs)
        cand == [i \in 1..(Len(ats) * nc * nd) |->
                   LET a == ats[((i - 1) \div (nc * nd)) + 1]
                       c == chs[(((i - 1) \div nd) % nc) + 1]
                       d == durs[((i - 1) % nd) + 1].path
                   IN [assetType |-> a, channel |-> c, duration |-> d,
                       price |-> computePriceIn(cfg, a, c, d)]]
    IN SelectSeq(cand, LAMBDA r : ~Falsy(r.price))

\* getAllRouteConfigs against a given snapshot
getAllRouteConfigsIn(cfg) ==
    LET priced == PricedCombos(cfg, KeysInOrder(cfg.assetTypes),
                               KeysInOrder(cfg.channels))
    IN [i \in 1..Len(priced) |->
          [routePath |-> RoutePath(priced[i].assetType, priced[i].channel,
                                   priced[i].duration),
           price |-> priced[i].price.formatted,
           assetType |-> priced[i].assetType,
           channel |-> priced[i].channel,
           duration |-> priced[i].duration]]

getAllRouteConfigs == getAllRouteConfigsIn(getPricing)

----------------------------------------------------------------------------
(* symbols.ts *)

ASSET_TYPE_MAP ==
    [k \in {"crypto", "equity", "fx", "rates", "commodity", "kalshi", "nav", "metal"}
       |-> IF k = "metal" THEN "commodity" ELSE k]

\* symbol.indexOf("/"), 0 for -1
IndexOfSlash(symbol) ==
    LET hits == {i \in 1..Len(symbol) : symbol[i] = "/"}
    IN IF hits = {} THEN 0 ELSE CHOOSE i \in hits : \A j \in hits : i <= j

FirstIndexOfDot(prefix) ==
    LET hits == {i \in 1..Len(prefix) : prefix[i] = "."}
    IN IF hits = {} THEN 0 ELSE CHOOSE i \in hits : \A j \in hits : i <= j

\* prefix.lastIndexOf("."), 0 for -1
LastIndexOfDot(prefix) ==
    LET hits == {i \in 1..Len(prefix) : prefix[i] = "."}
    IN IF hits = {} THEN 0 ELSE CHOOSE i \in hits : \A j \in hits : i >= j

\* parseTickerName: Null, or base "-" quote
parseTickerName(symbol) ==
    LET slashIdx == IndexOfSlash(symbol)
        prefix == SubSeq(symbol, 1, slashIdx - 1)
        quote == SubSeq(symbol, slashIdx + 1, Len(symbol))
        dotIdx == LastIndexOfDot(prefix)
        base == SubSeq(prefix, dotIdx + 1, Len(prefix))
    IN IF slashIdx = 0 THEN Null
       ELSE IF dotIdx = 0 THEN Null
       ELSE IF base = <<>> \/ quote = <<>> THEN Null
       ELSE [ticker |-> base \o <<"-">> \o quote]

\* !mappedType || !assetTypes[mappedType].  For a name ASSET_TYPE_MAP inherits,
\* mappedType is a function: truthy, but as a key it is its source text, which
\* is no key of a document.
NotConfigured(asset_type, assetTypes) ==
    IF asset_type \in DOMAIN ASSET_TYPE_MAP
    THEN Falsy(Get(assetTypes, ASSET_TYPE_MAP[asset_type]))
    ELSE IF asset_type \in ObjectPrototypeKeys THEN Falsy(Undefined)
    ELSE TRUE

\* The three `continue`s of the loop of initSymbols: whether the item is passed over
SkipsAnyState(item, assetTypes) ==
    \/ NotConfigured(item.asset_type, assetTypes)
    \/ parseTickerName(item.symbol) = Null

SkipsUnconfigured(item, assetTypes) ==
    \/ item.state # "stable"
    \/ item.asset_type \notin DOMAIN ASSET_TYPE_MAP
    \/ parseTickerName(item.symbol) = Null

Skips(item, assetTypes) ==
    \/ item.state # "stable"
    \/ NotConfigured(item.asset_type, assetTypes)
    \/ parseTickerName(item.symbol) = Null

\* One item that is not skipped, written over whatever the ticker held
PutLastSeen(map, item) ==
    LET mappedType == ASSET_TYPE_MAP[item.asset_type]
        ticker == parseTickerName(item.symbol).ticker
        info == [feedId |-> item.pyth_lazer_id, assetType |-> mappedType]
        inner == IF mappedType \in DOMAIN map THEN map[mappedType] ELSE <<>>
    IN [k \in DOMAIN map \cup {mappedType} |->
          IF k = mappedType
          THEN [t \in DOMAIN inner \cup {ticker} |->
                  IF t = ticker THEN info ELSE inner[t]]
          ELSE map[k]]

\* One item that is not skipped: make the asset type's map if there is none,
\* set the ticker if it is not set (first seen wins)
Put(map, item) ==
    LET mappedType == ASSET_TYPE_MAP[item.asset_type]
        ticker == parseTickerName(item.symbol).ticker
        info == [feedId |-> item.pyth_lazer_id, assetType |-> mappedType]
        inner == IF mappedType \in DOMAIN map THEN map[mappedType] ELSE <<>>
    IN [k \in DOMAIN map \cup {mappedType} |->
          IF k = mappedType
          THEN [t \in DOMAIN inner \cup {ticker} |->
                  IF t \in DOMAIN inner THEN inner[t] ELSE info]
          ELSE map[k]]

\* The loop of initSymbols over data[i..], from the map built so far
RECURSIVE IngestFrom(_, _, _, _)
IngestFrom(data, assetTypes, i, map) ==
    IF i > Len(data) THEN map
    ELSE IngestFrom(data, assetTypes, i + 1,
                    IF Skips(data[i], assetTypes) THEN map ELSE Put(map, data[i]))

\* byAssetType[assetType]?.[ticker]
getTickerInfo(assetType, ticker) ==
    IF assetType \in DOMAIN byAssetType THEN GetTicker(byAssetType[assetType], ticker)
    ELSE IF assetType \in ObjectPrototypeKeys /\ ticker = ProtoTicker THEN Inherited
    ELSE Undefined

\* byAssetType[assetType] ?? {}: the own entries of what it returns
getTickersForAssetType(assetType) ==
    IF assetType \in DOMAIN byAssetType THEN byAssetType[assetType] ELSE <<>>

getAllTickers == byAssetType

----------------------------------------------------------------------------
(* config.ts: the credentials the environment configures *)

PYTH_PRO_ACCESS_TOKEN == "token"

PYTH_PRO_WS_URLS == <<"wss0", "wss1", "wss2">>

----------------------------------------------------------------------------
(* Inputs: the documents pricing.json may hold *)

Dur(path, price) == [path |-> path, basePriceDollars |-> price]

Mult(m) == [multiplier |-> m]

Chan(ws, m) == [wsChannel |-> ws, multiplier |-> m]

Json(v) == [kind |-> "json", value |-> v]

\* one duration, two asset types, one channel
DocA ==
    Json([durations |-> <<Dur("1h", 500)>>,
          assetTypes |-> [k \in {"crypto", "commodity"} |->
                            IF k = "crypto" THEN Mult(100) ELSE Mult(150)],
          channels |-> [k \in {"fixed"} |-> Chan("fixed_rate@200ms", 100)]])

\* DocA with commodity removed, 1h repriced, fixed changed and a channel added;
\* 0.05 * 0.5 * 1 is 2.5 cents
DocB ==
    Json([durations |-> <<Dur("1h", 5)>>,
          assetTypes |-> [k \in {"crypto"} |-> Mult(50)],
          channels |-> [k \in {"fixed", "realtime"} |->
                          IF k = "fixed" THEN Chan("fixed_rate@50ms", 100)
                          ELSE Chan("real_time", 200)]])

\* DocA with "metal", a key no alias maps to, in the place of crypto
DocMetal ==
    Json([DocA.value EXCEPT !.assetTypes = [k \in {"metal", "commodity"} |-> Mult(100)]])

DocEmptyDurations == Json([DocA.value EXCEPT !.durations = <<>>])

DocZeroMultiplier ==
    Json([DocA.value EXCEPT !.assetTypes = [k \in {"crypto"} |-> Mult(0)]])

\* not JSON at all
DocGarbage == [kind |-> "garbage", value |-> Null]

\* the file cannot be read
DocUnreadable == [kind |-> "unreadable", value |-> Null]

Docs == {DocA, DocB, DocEmptyDurations, DocZeroMultiplier, DocGarbage, DocUnreadable}

(* Inputs: what the symbols API returns *)

SymBTC == <<"C", ".", "B", "/", "U">>

SymXAU == <<"M", ".", "X", "/", "U">>

SymNoSlash == <<"B", "U">>

\* a quote that ends in a digit
SymDigitQuote == <<"C", ".", "B", "/", "U", "1">>

Item(state, assetType, symbol, id) ==
    [state |-> state, asset_type |-> assetType, symbol |-> symbol,
     pyth_lazer_id |-> id]

\* "missing": the entry has no state
States == {"stable", "inactive", "missing"}

UpstreamTypes == {"crypto", "metal", "commodity", "bogus", "constructor"}

Symbols == {SymBTC, SymXAU, SymNoSlash}

Shapes == States \X UpstreamTypes \X Symbols

\* the catalog of the given shapes; entry i carries feed id i
Catalog(sh) == [i \in 1..Len(sh) |-> Item(sh[i][1], sh[i][2], sh[i][3], i)]

SampleCatalogs ==
    {<<Item("stable", "crypto", SymBTC, 1), Item("stable", "metal", SymXAU, 2),
       Item("stable", "crypto", SymDigitQuote, 3)>>,
     <<Item("inactive", "crypto", SymBTC, 1), Item("stable", "commodity", SymBTC, 2)>>}

FetchOutcomes == {"ok", "httpError", "badJson"}

(* Inputs: the purchase requests *)

TickBTC == <<"B", "-", "U">>

TickXAU == <<"X", "-", "U">>

TickDigitQuote == <<"B", "-", "U", "1">>

NoTicker == [empty |-> TRUE]

Bodies == {NoTicker} \cup
          {[ticker |-> t] : t \in {TickBTC, TickXAU, TickDigitQuote, ProtoTicker}}

\* (req.payerAddress, the x-payer-address header); "none" for an absent one
Payers == {<<"none", "none">>, <<"0xA", "none">>, <<"none", "0xB">>}

(* Inputs: the queries of GET /v1/pricing; "" and <<>> for an absent parameter *)

Query(ticker, assetType, channel) ==
    [ticker |-> ticker, assetType |-> assetType, channel |-> channel,
     repeated |-> FALSE]

Queries ==
    {Query(<<>>, "", ""),
     Query(TickBTC, "", ""),
     Query(TickXAU, "crypto", ""),
     Query(TickBTC \o <<",", " ">> \o TickXAU, "", "fixed"),
     Query(<<>>, "metal", ""),
     Query(<<>>, "", "bogus"),
     Query(<<>>, "constructor", ""),
     Query(ProtoTicker, "", ""),
     [Query(<<>>, "", "") EXCEPT !.repeated = TRUE]}

NoReq == [none |-> TRUE]

NoRes == [none |-> TRUE]

NoNotice == [none |-> TRUE]

----------------------------------------------------------------------------
(* routes/purchase.ts *)

UpperCase == {"A", "B", "C", "D", "E", "F", "G", "H", "I", "J", "K", "L", "M",
              "N", "O", "P", "Q", "R", "S", "T", "U", "V", "W", "X", "Y", "Z"}

Digits == {"0", "1", "2", "3", "4", "5", "6", "7", "8", "9"}

\* /^[A-Z0-9]+-[A-Z]+$/
TickerPattern(t) ==
    \E i \in 2..(Len(t) - 1) :
        /\ t[i] = "-"
        /\ \A j \in 1..(i - 1) : t[j] \in UpperCase \cup Digits
        /\ \A j \in (i + 1)..Len(t) : t[j] \in UpperCase

\* purchaseBody.safeParse(req.body).success
purchaseBody(body) == "ticker" \in DOMAIN body /\ TickerPattern(body.ticker)

\* req.payerAddress ?? req.headers["x-payer-address"] ?? "unknown"
payerWallet(r) ==
    IF r.payerAddress # "none" THEN r.payerAddress
    ELSE IF r.header # "none" THEN r.header
    ELSE "unknown"

\* channels[channelSlug]?.wsChannel ?? "fixed_rate@200ms"
wsChannelOf(channelSlug) ==
    IF channelSlug \in DOMAIN getChannels THEN getChannels[channelSlug].wsChannel
    ELSE "fixed_rate@200ms"

\* price?.formatted
FormattedOf(price) == IF Falsy(price) THEN Undefined ELSE price.formatted

ValidationError == [status |-> 400, code |-> "VALIDATION_ERROR"]

\* how many tickers the message of INVALID_TICKER lists
AvailableLimit == 10

\* Object.keys of a listing: the tickers in the order they were inserted, which
\* is the order of their entries in the catalog, that is of their feed ids
RECURSIVE TickersInOrder(_)
TickersInOrder(listing) ==
    IF DOMAIN listing = {} THEN <<>>
    ELSE LET t == CHOOSE t \in DOMAIN listing :
                    \A u \in DOMAIN listing : listing[t].feedId <= listing[u].feedId
         IN <<t>> \o TickersInOrder([u \in DOMAIN listing \ {t} |-> listing[u]])

SliceAll(seq, n) == seq

\* available.slice(0, 10)
Slice(seq, n) == SubSeq(seq, 1, IF Len(seq) < n THEN Len(seq) ELSE n)

\* the 400 for an unknown ticker: the first tickers of the asset type and, when
\* there are more, their number
InvalidTicker(assetType) ==
    LET available == TickersInOrder(getTickersForAssetType(assetType))
    IN [status |-> 400, code |-> "INVALID_TICKER",
        available |-> Slice(available, AvailableLimit),
        total |-> IF Len(available) > AvailableLimit THEN Num(Len(available))
                  ELSE Undefined]

\* the record the purchase logger writes
AuditRecord(r, ticker, tickerInfo, price) ==
    [wallet |-> payerWallet(r), ticker |-> ticker, feedId |-> tickerInfo.feedId,
     assetType |-> r.route.assetType, channel |-> r.route.channel,
     duration |-> r.route.duration, pricePaid |-> FormattedOf(price)]

CredentialWithPayer(r, ticker, tickerInfo, price) ==
    [status |-> 200, code |-> "OK", payer |-> payerWallet(r),
     ticker |-> ticker, feedId |-> tickerInfo.feedId,
     assetType |-> r.route.assetType, channel |-> r.route.channel,
     duration |-> r.route.duration, pricePaid |-> FormattedOf(price),
     accessToken |-> PYTH_PRO_ACCESS_TOKEN, websocketUrls |-> PYTH_PRO_WS_URLS,
     subscribe |-> [priceFeedIds |-> <<tickerInfo.feedId>>,
                    channel |-> wsChannelOf(r.route.channel)]]

\* the 200 response
Credential(r, ticker, tickerInfo, price) ==
    [status |-> 200, code |-> "OK",
     ticker |-> ticker, feedId |-> tickerInfo.feedId,
     assetType |-> r.route.assetType, channel |-> r.route.channel,
     duration |-> r.route.duration, pricePaid |-> FormattedOf(price),
     accessToken |-> PYTH_PRO_ACCESS_TOKEN, websocketUrls |-> PYTH_PRO_WS_URLS,
     subscribe |-> [priceFeedIds |-> <<tickerInfo.feedId>>,
                    channel |-> wsChannelOf(r.route.channel)]]

----------------------------------------------------------------------------
(* routes/pricing.ts *)

\* s.indexOf(c), 0 for -1
IndexOf(s, c) ==
    LET hits == {i \in 1..Len(s) : s[i] = c}
    IN IF hits = {} THEN 0 ELSE CHOOSE i \in hits : \A j \in hits : i <= j

\* s.split(",")
RECURSIVE SplitComma(_)
SplitComma(s) ==
    IF IndexOf(s, ",") = 0 THEN <<s>>
    ELSE <<SubSeq(s, 1, IndexOf(s, ",") - 1)>>
         \o SplitComma(SubSeq(s, IndexOf(s, ",") + 1, Len(s)))

\* s.trim()
RECURSIVE Trim(_)
Trim(s) ==
    IF s = <<>> THEN s
    ELSE IF Head(s) = " " THEN Trim(Tail(s))
    ELSE IF s[Len(s)] = " " THEN Trim(SubSeq(s, 1, Len(s) - 1))
    ELSE s

\* tickerParam ? tickerParam.split(",").map((t) => t.trim()).filter(Boolean) : []
ParseTickers(tickerParam) ==
    IF tickerParam = <<>> THEN <<>>
    ELSE LET parts == SplitComma(tickerParam)
         IN SelectSeq([i \in 1..Len(parts) |-> Trim(parts[i])], LAMBDA t : t # <<>>)

\* t in getTickersForAssetType(at): `in` also finds what the object inherits
InTickers(t, assetType) ==
    t \in Keys(getTickersForAssetType(assetType)) \/ t = ProtoTicker

MatchedFirstTicker(assetType, tickers) ==
    LET found == {t \in Range(SubSeq(tickers, 1, 1)) :
                    ~Falsy(getTickerInfo(assetType, t))}
    IN [t \in found |->
          [feedId |-> NumField(getTickerInfo(assetType, t), "feedId")]]

\* supportedTickers[at] when tickers are asked for: the asked tickers that
\* allTickers[at][t] finds
Matched(assetType, tickers) ==
    LET found == {t \in Range(tickers) : ~Falsy(getTickerInfo(assetType, t))}
    IN [t \in found |->
          [feedId |-> NumField(getTickerInfo(assetType, t), "feedId")]]

\* the supportedTickers of the response
SupportedTickers(effectiveAssetTypes, tickers) ==
    LET listed == {at \in Range(effectiveAssetTypes) :
                     /\ \/ at \in DOMAIN byAssetType
                        \/ at \in ObjectPrototypeKeys
                     /\ tickers # <<>> => DOMAIN Matched(at, tickers) # {}}
    IN [at \in listed |->
          IF tickers # <<>> THEN Matched(at, tickers)
          ELSE [t \in Keys(getTickersForAssetType(at)) |->
                  [feedId |-> Num(getTickersForAssetType(at)[t].feedId)]]]

\* the whole of the GET handler of pricingRouter
pricingOutcome(q) ==
    LET assetTypes == getAssetTypes
        channels == getChannels
        durations == getDurations
        tickers == ParseTickers(q.ticker)
        invalidTickers ==
            SelectSeq(tickers, LAMBDA t :
                ~\E at \in Keys(assetTypes) : ~Falsy(getTickerInfo(at, t)))
        filteredAssetTypes ==
            IF q.assetType # "" THEN <<q.assetType>> ELSE KeysInOrder(assetTypes)
        effectiveAssetTypes ==
            IF tickers = <<>> THEN filteredAssetTypes
            ELSE SelectSeq(filteredAssetTypes, LAMBDA at :
                     \E i \in 1..Len(tickers) : InTickers(tickers[i], at))
        filteredChannels ==
            IF q.channel # "" THEN <<q.channel>> ELSE KeysInOrder(channels)
        priced == PricedCombos(getPricing, effectiveAssetTypes, filteredChannels)
    IN IF q.repeated THEN ValidationError
       ELSE IF q.assetType # "" /\ Falsy(Get(assetTypes, q.assetType))
       THEN [status |-> 400, code |-> "INVALID_ASSET_TYPE",
             availableKeys |-> KeysInOrder(assetTypes)]
       ELSE IF q.channel # "" /\ Falsy(Get(channels, q.channel))
       THEN [status |-> 400, code |-> "INVALID_CHANNEL",
             availableKeys |-> KeysInOrder(channels)]
       ELSE IF invalidTickers # <<>>
       THEN [status |-> 400, code |-> "INVALID_TICKER",
             notFound |-> invalidTickers, hint |-> "symbols API"]
       ELSE [status |-> 200, code |-> "OK",
             assetTypes |-> assetTypes, channels |-> channels,
             durations |-> durations,
             pricing |-> [i \in 1..Len(priced) |->
                            [assetType |-> priced[i].assetType,
                             channel |-> priced[i].channel,
                             duration |-> priced[i].duration,
                             price |-> priced[i].price.formatted,
                             purchaseUrl |-> RoutePath(priced[i].assetType,
                                                       priced[i].channel,
                                                       priced[i].duration)]],
             supportedTickers |-> SupportedTickers(effectiveAssetTypes, tickers)]

----------------------------------------------------------------------------
(* routes/purchase.ts, the handler *)

\* what the handler answers and whether it logs: the whole of purchaseHandler.
\* steps are the states of the request the handler passes through, in the order
\* of its statements: Validated once the body has parsed, Priced once
\* computePrice has given a price, Authorized where it takes up the payer the
\* gate has left on the request, Fulfilled at res.json
purchaseOutcome(r) ==
    IF ~purchaseBody(r.body)
    THEN [out |-> ValidationError, log |-> <<>>, steps |-> <<"Received", "Rejected">>]
    ELSE LET ticker == r.body.ticker
             tickerInfo == getTickerInfo(r.route.assetType, ticker)
         IN IF Falsy(tickerInfo)
            THEN [out |-> InvalidTicker(r.route.assetType), log |-> <<>>,
                  steps |-> <<"Received", "Validated", "Rejected">>]
            ELSE LET price == computePrice(r.route.assetType, r.route.channel,
                                           r.route.duration)
                 IN [out |-> Credential(r, ticker, tickerInfo, price),
                     log |-> <<AuditRecord(r, ticker, tickerInfo, price)>>,
                     steps |-> <<"Received", "Validated">>
                               \o (IF Falsy(price) THEN <<>> ELSE <<"Priced">>)
                               \o <<"Authorized", "Fulfilled">>]

----------------------------------------------------------------------------
(* The process *)

Init ==
    /\ phase = "boot"
    /\ watching = FALSE
    /\ current = Null
    /\ loaded = {}
    /\ notice = NoNotice
    /\ catalog = <<>>
    /\ byAssetType = <<>>
    /\ routes = <<>>
    /\ req = NoReq
    /\ res = NoRes
    /\ audit = <<>>
    /\ served = 0

\* pricing.ts at import: the initial load, which throws if it fails, and fs.watch,
\* which may fail and only disables the hot reload
ModuleLoad(doc, watchOk) ==
    /\ phase = "boot"
    /\ LET first == loadConfig(doc)
       IN IF Falsy(first)
          THEN /\ phase' = "aborted"
               /\ UNCHANGED <<current, loaded, watching>>
          ELSE /\ phase' = "loaded"
               /\ current' = first
               /\ loaded' = {first}
               /\ watching' = watchOk
    /\ UNCHANGED <<notice, catalog, byAssetType, routes, req, res, audit, served>>

SwapChannelsOnly(cur, updated) == [cur EXCEPT !.channels = updated.channels]

\* current = updated
Swap(cur, updated) == updated

ReloadedUnchecked(cur, updated) == updated

\* if (updated) current = updated; else the previous config is kept
Reloaded(cur, updated) == IF Falsy(updated) THEN cur ELSE Swap(cur, updated)

\* The fs.watch callback.  It runs as a task of its own: between the import and
\* the end of the fetch of initSymbols, and at any time once the server listens.
FileChange(eventType, doc) ==
    /\ watching
    /\ phase \in {"loaded", "listening"}
    /\ notice' = [eventType |-> eventType, doc |-> doc]
    /\ IF eventType = "change"
       THEN /\ current' = Reloaded(current, loadConfig(doc))
            /\ loaded' = IF Falsy(loadConfig(doc)) THEN loaded
                         ELSE loaded \cup {loadConfig(doc)}
       ELSE UNCHANGED <<current, loaded>>
    /\ UNCHANGED <<phase, watching, catalog, byAssetType, routes, req, res, audit, served>>

\* initSymbols, from the answer of the fetch on; a failure rejects main()
initSymbols(outcome, data) ==
    /\ phase = "loaded"
    /\ IF outcome = "ok"
       THEN /\ catalog' = data
            /\ byAssetType' = IngestFrom(data, getAssetTypes, 1, <<>>)
            /\ phase' = "ingested"
       ELSE /\ phase' = "aborted"
            /\ UNCHANGED <<catalog, byAssetType>>
    /\ UNCHANGED <<watching, current, loaded, notice, routes, req, res,
                   audit, served>>

\* createApp and server.listen, in the task that finished initSymbols
createApp ==
    /\ phase = "ingested"
    /\ routes' = getAllRouteConfigs
    /\ phase' = "listening"
    /\ UNCHANGED <<watching, current, loaded, notice, catalog, byAssetType,
                   req, res, audit, served>>

\* A POST arrives on a registered purchase path
Receive(route, body, payer) ==
    /\ phase = "listening"
    /\ req = NoReq
    /\ served < MaxRequests
    /\ served' = served + 1
    /\ req' = [kind |-> "purchase", route |-> route, body |-> body,
               payerAddress |-> payer[1], header |-> payer[2], stage |-> "received"]
    /\ res' = NoRes
    /\ UNCHANGED <<phase, watching, current, loaded, notice, catalog,
                   byAssetType, routes, audit>>

PaymentRequired == [status |-> 402, code |-> "PAYMENT_REQUIRED"]

\* paymentMiddleware(routeConfig, resourceServer): it answers 402 itself or calls next()
paymentMiddleware(paid) ==
    /\ req # NoReq
    /\ req.stage = "received"
    /\ IF paid
       THEN /\ req' = [req EXCEPT !.stage = "authorized"]
            /\ UNCHANGED res
       ELSE /\ res' = [req |-> req, out |-> PaymentRequired]
            /\ req' = NoReq
    /\ UNCHANGED <<phase, watching, current, loaded, notice, catalog,
                   byAssetType, routes, audit, served>>

ReachesHandlerUngated(r) == r.stage \in {"received", "authorized"}

\* app.use(paymentMiddleware(...)) comes before every app.post(r.routePath, ...):
\* Express runs the handler only when the middleware has called next()
ReachesHandler(r) == r.stage = "authorized"

pricingHandlerMaterialising(q) ==
    /\ phase = "listening"
    /\ served < MaxRequests
    /\ served' = served + 1
    /\ res' = [req |-> [kind |-> "pricing", query |-> q], out |-> pricingOutcome(q)]
    /\ byAssetType' = [at \in DOMAIN byAssetType \cup DOMAIN getAssetTypes |->
                         getTickersForAssetType(at)]
    /\ UNCHANGED <<phase, watching, current, loaded, notice, catalog,
                   routes, req, audit>>

\* GET /v1/pricing: no gate, and the handler runs to its end in one task.  The
\* request in flight, if any, is a purchase waiting on the payment gate.
pricingHandler(q) ==
    /\ phase = "listening"
    /\ served < MaxRequests
    /\ served' = served + 1
    /\ res' = [req |-> [kind |-> "pricing", query |-> q], out |-> pricingOutcome(q)]
    /\ UNCHANGED <<phase, watching, current, loaded, notice, catalog,
                   byAssetType, routes, req, audit>>

purchaseHandler ==
    /\ req # NoReq
    /\ ReachesHandler(req)
    /\ res' = [req |-> req, out |-> purchaseOutcome(req).out,
               steps |-> purchaseOutcome(req).steps]
    /\ audit' = audit \o purchaseOutcome(req).log
    /\ req' = NoReq
    /\ UNCHANGED <<phase, watching, current, loaded, notice, catalog,
                   byAssetType, routes, served>>

Next ==
    \/ \E doc \in Docs, watchOk \in BOOLEAN : ModuleLoad(doc, watchOk)
    \/ \E doc \in Docs : FileChange("change", doc)
    \/ FileChange("rename", DocUnreadable)
    \/ \E outcome \in FetchOutcomes, data \in SampleCatalogs : initSymbols(outcome, data)
    \/ createApp
    \/ \E route \in Range(routes), body \in Bodies, payer \in Payers :
          Receive(route, body, payer)
    \/ \E paid \in BOOLEAN : paymentMiddleware(paid)
    \/ purchaseHandler
    \/ \E q \in Queries : pricingHandler(q)

Spec == Init /\ [][Next]_vars

(* The symbol ingestion on its own, over every catalog of the bound *)

InitIngest ==
    /\ phase = "loaded"
    /\ watching = FALSE
    /\ current \in {DocA.value, DocB.value, DocMetal.value}
    /\ loaded = {current}
    /\ notice = NoNotice
    /\ catalog = <<>>
    /\ byAssetType = <<>>
    /\ routes = <<>>
    /\ req = NoReq
    /\ res = NoRes
    /\ audit = <<>>
    /\ served = 0

NextIngest ==
    \/ /\ phase = "loaded"
       /\ \E outcome \in FetchOutcomes, n \in 0..MaxCatalog :
             \E sh \in [1..n -> Shapes] : initSymbols(outcome, Catalog(sh))
    \/ createApp

SpecIngest == InitIngest /\ [][NextIngest]_vars

(* The parsing of one symbol, over every string of the bound: a catalog of one
   stable crypto entry *)

MaxSymbol == 5

SymbolAlphabet == {"A", "B", ".", "/"}

InitParse == InitIngest /\ current = DocA.value

NextParse ==
    /\ phase = "loaded"
    /\ \E n \in 0..MaxSymbol : \E symbol \in [1..n -> SymbolAlphabet] :
          initSymbols("ok", <<Item("stable", "crypto", symbol, 1)>>)

SpecParse == InitParse /\ [][NextParse]_vars

(* The purchase flow over directories of many tickers: catalogs of up to
   MaxListing stable entries with distinct symbols, the second one a metal *)

MaxListing == 13

Letters == <<"A", "B", "C", "D", "E", "F", "G", "H", "I", "J", "K", "L", "M",
             "N", "O", "P", "Q", "R", "S", "T", "U", "V", "W", "X", "Y", "Z">>

LongCatalog(n) ==
    [i \in 1..n |-> Item("stable", IF i = 2 THEN "metal" ELSE "crypto",
                         <<"C", ".", Letters[((i - 1) % Len(Letters)) + 1], "/", "U">>, i)]

TickUnlisted == <<"Z", "Z", "-", "U">>

NextListing ==
    \/ \E n \in 0..MaxListing : initSymbols("ok", LongCatalog(n))
    \/ createApp
    \/ \E route \in Range(routes),
          body \in {[ticker |-> t] : t \in {TickUnlisted, TickBTC, TickDigitQuote}} :
          Receive(route, body, <<"none", "none">>)
    \/ \E paid \in BOOLEAN : paymentMiddleware(paid)
    \/ purchaseHandler

SpecListing == InitParse /\ [][NextListing]_vars

(* The route table over every snapshot of the bound: up to MaxDurations tiers,
   which may repeat a path, and every non-empty choice of asset types and
   channels *)

MaxDurations == 2

DurationTiers == {Dur(path, price) : path \in {"1h", "24h"}, price \in {5, 500}}

AssetTypeMaps ==
    UNION {[K -> {Mult(50), Mult(150)}] : K \in SUBSET {"crypto", "commodity"} \ {{}}}

ChannelMaps ==
    UNION {[K -> {Chan("fixed_rate@200ms", 100), Chan("real_time", 200)}] :
             K \in SUBSET {"fixed", "realtime"} \ {{}}}

NextRoutes ==
    \/ /\ phase = "boot"
       /\ \E n \in 1..MaxDurations :
             \E durations \in [1..n -> DurationTiers],
                assetTypes \in AssetTypeMaps, channels \in ChannelMaps :
                ModuleLoad(Json([durations |-> durations, assetTypes |-> assetTypes,
                                 channels |-> channels]), FALSE)
    \/ initSymbols("ok", <<>>)
    \/ createApp

SpecRoutes == Init /\ [][NextRoutes]_vars

(* The pricing route over every query of the bound, with reloads *)

TickerParams ==
    {<<>>, TickBTC, TickXAU, TickUnlisted, ProtoTicker, <<",">>,
     TickBTC \o <<",", " ">> \o TickXAU, TickBTC \o <<",">> \o TickUnlisted}

AssetTypeParams == {"", "crypto", "commodity", "metal", "constructor"}

ChannelParams == {"", "fixed", "realtime", "bogus", "constructor"}

NextPricing ==
    \/ \E doc \in {DocA, DocB} : ModuleLoad(doc, TRUE)
    \/ \E doc \in {DocA, DocB} : FileChange("change", doc)
    \/ \E data \in SampleCatalogs : initSymbols("ok", data)
    \/ createApp
    \/ \E ticker \in TickerParams, assetType \in AssetTypeParams,
          channel \in ChannelParams :
          pricingHandler(Query(ticker, assetType, channel))

SpecPricing == Init /\ [][NextPricing]_vars

(* The route table over small numbers: one tier, one asset type and one
   channel, with the base price and the multipliers from 0.01 to 1.5 *)

SmallNumbers == {1, 10, 40, 100, 150}

NextCents ==
    \/ /\ phase = "boot"
       /\ \E price \in SmallNumbers, a \in SmallNumbers, c \in SmallNumbers :
             ModuleLoad(Json([durations |-> <<Dur("1h", price)>>,
                              assetTypes |-> [k \in {"crypto"} |-> Mult(a)],
                              channels |-> [k \in {"fixed"} |->
                                              Chan("fixed_rate@200ms", c)]]), FALSE)
    \/ initSymbols("ok", <<>>)
    \/ createApp

SpecCents == Init /\ [][NextCents]_vars

----------------------------------------------------------------------------
(* The claims *)

\* the keys and tickers the lookups are tried with
AssetTypeInputs == {"crypto", "commodity", "metal", "constructor"}

ChannelInputs == {"fixed", "realtime", "constructor"}

DurationInputs == {"1h", "24h", "constructor"}

TickerInputs == {TickBTC, TickXAU, TickDigitQuote, ProtoTicker}

Abs(n) == IF n < 0 THEN -n ELSE n

HasDuration(cfg, d) == \E i \in 1..Len(cfg.durations) : cfg.durations[i].path = d

\* a response of the purchase handler (not of the payment gate)
Handled == res # NoRes /\ res.req.kind = "purchase" /\ res.out.status # 402

\* C1: for every triple, computePrice is not-found exactly when one of the three
\* keys is absent from the current snapshot, and is otherwise the product of the
\* base price and the two multipliers, rounded to the nearest cent.
C1_ComputePriceContract ==
    current # Null =>
      \A at \in AssetTypeInputs, ch \in ChannelInputs, d \in DurationInputs :
        LET p == computePrice(at, ch, d)
            present == /\ at \in Keys(current.assetTypes)
                       /\ ch \in Keys(current.channels)
                       /\ HasDuration(current, d)
        IN /\ (p = Undefined) <=> ~present
           /\ present =>
                /\ IsNum(p.dollars)
                /\ \E i \in 1..Len(current.durations) :
                      /\ current.durations[i].path = d
                      /\ 2 * Abs(p.dollars.num * Hundred * Hundred
                                 - current.durations[i].basePriceDollars
                                   * current.assetTypes[at].multiplier
                                   * current.channels[ch].multiplier)
                           <= Hundred * Hundred

\* C2: a request that passed the gate is fulfilled exactly when its ticker is in
\* the directory under the route's asset type.
C2_FulfilledIffInDirectory ==
    Handled =>
      ((res.out.status = 200) <=>
         /\ "ticker" \in DOMAIN res.req.body
         /\ res.req.body.ticker \in Keys(getTickersForAssetType(res.req.route.assetType)))

\* C3: the purchase handler answers, and the audit log grows, only for a request
\* on a registered route that the payment gate has passed; a request the gate
\* rejects gets the 402 and leaves no credential and no audit record.
C3_HandlerOnlyAfterGate ==
    [][/\ (res' # res /\ res' # NoRes /\ res'.req.kind = "purchase"
           /\ res'.out.status # 402) =>
            /\ req # NoReq
            /\ req.stage = "authorized"
            /\ res'.req = req
            /\ \E i \in 1..Len(routes) :
                  /\ routes[i].assetType = req.route.assetType
                  /\ routes[i].channel = req.route.channel
                  /\ routes[i].duration = req.route.duration
       /\ (audit' # audit) => (req # NoReq /\ req.stage = "authorized")
       /\ (req # NoReq /\ req.stage = "received" /\ req' = NoReq) =>
            (res'.out = PaymentRequired /\ audit' = audit)]_vars

C3_Witness ==
    /\ Handled
    /\ res.out.status = 200
    /\ res.req.stage = "authorized"
    /\ Len(audit) = 1

\* the schema, as the claims state it
SchemaValid(v) ==
    /\ Len(v.durations) >= 1
    /\ Cardinality(DOMAIN v.assetTypes) >= 1
    /\ Cardinality(DOMAIN v.channels) >= 1
    /\ \A i \in 1..Len(v.durations) : v.durations[i].basePriceDollars > 0
    /\ \A k \in DOMAIN v.assetTypes : v.assetTypes[k].multiplier > 0
    /\ \A k \in DOMAIN v.channels : v.channels[k].multiplier > 0

DocValid(doc) == doc.kind = "json" /\ SchemaValid(doc.value)

\* C4: a file-change notice with a valid document makes that document the
\* snapshot; with an unreadable, unparsable or schema-invalid one it leaves the
\* snapshot and the price of every configured triple as they were; the process
\* keeps running.
C4_ReloadSwapsOrRetains ==
    [][notice' # notice =>
         /\ phase' = phase
         /\ IF notice'.eventType = "change" /\ DocValid(notice'.doc)
            THEN current' = notice'.doc.value
            ELSE /\ current' = current
                 /\ \A at \in Keys(current.assetTypes), ch \in Keys(current.channels),
                       i \in 1..Len(current.durations) :
                       computePriceIn(current', at, ch, current.durations[i].path)
                         = computePriceIn(current, at, ch, current.durations[i].path)]_vars

C4_Witness ==
    /\ phase = "listening"
    /\ loaded = {DocA.value, DocB.value}
    /\ notice # NoNotice
    /\ notice.doc = DocZeroMultiplier
    /\ current = DocB.value

\* C5: whenever routes are registered or a request is served the snapshot is
\* schema-valid; a failed initial load aborts, with no route and no request.
C5_SnapshotAlwaysValid ==
    /\ (phase = "listening" \/ routes # <<>> \/ req # NoReq \/ res # NoRes) =>
         (current # Null /\ SchemaValid(current))
    /\ (phase # "boot" /\ loaded = {}) =>
         /\ phase = "aborted"
         /\ current = Null
         /\ routes = <<>>
         /\ req = NoReq
         /\ res = NoRes
         /\ served = 0

C5_Witness ==
    /\ phase = "listening"
    /\ notice # NoNotice
    /\ notice.doc = DocGarbage
    /\ res # NoRes
    /\ res.out.status = 200

\* the stream name a snapshot gives a channel
StreamNameIn(cfg, channel) ==
    IF channel \in DOMAIN cfg.channels THEN cfg.channels[channel].wsChannel
    ELSE "fixed_rate@200ms"

\* a 200 of the pricing handler
Listed == res # NoRes /\ res.req.kind = "pricing" /\ res.out.status = 200

\* C6: the price and the stream name of a credential come from one and the same
\* snapshot, one that was loaded whole; so do the asset types, the channels, the
\* durations and every price of a pricing response.
C6_OneSnapshotPerHandler ==
    /\ (Handled /\ res.out.status = 200) =>
         \E cfg \in loaded :
           /\ res.out.pricePaid
                = FormattedOf(computePriceIn(cfg, res.req.route.assetType,
                                             res.req.route.channel,
                                             res.req.route.duration))
           /\ res.out.subscribe.channel = StreamNameIn(cfg, res.req.route.channel)
    /\ Listed =>
         \E cfg \in loaded :
           /\ res.out.assetTypes = cfg.assetTypes
           /\ res.out.channels = cfg.channels
           /\ res.out.durations = cfg.durations
           /\ \A i \in 1..Len(res.out.pricing) :
                 res.out.pricing[i].price
                   = FormattedOf(computePriceIn(cfg, res.out.pricing[i].assetType,
                                                res.out.pricing[i].channel,
                                                res.out.pricing[i].duration))

C6_Witness ==
    /\ Handled
    /\ res.out.status = 200
    /\ loaded = {DocA.value, DocB.value}
    /\ current = DocB.value
    /\ res.out.subscribe.channel = "fixed_rate@50ms"

\* C7: when the route has no resolvable price the handler answers 500 and issues
\* nothing: no credential and no audit record is without a price.
C7_DesyncIsAnError ==
    /\ (Handled /\ res.out.status = 200) => ~Falsy(res.out.pricePaid)
    /\ \A i \in 1..Len(audit) : ~Falsy(audit[i].pricePaid)

\* the directory is built
Ingested == phase \in {"ingested", "listening"}

\* C8: every record of the directory comes from a catalog entry whose state is
\* "stable" (the feed id of entry i is i).
C8_OnlyStable ==
    Ingested =>
      /\ \A at \in DOMAIN byAssetType : \A t \in DOMAIN byAssetType[at] :
            LET i == byAssetType[at][t].feedId
            IN i \in 1..Len(catalog) /\ catalog[i].state = "stable"
      /\ \A i \in 1..Len(catalog) :
            catalog[i].state # "stable" =>
              \A at \in DOMAIN byAssetType : \A t \in DOMAIN byAssetType[at] :
                byAssetType[at][t].feedId # i

C8_Witness ==
    /\ phase = "ingested"
    /\ Len(catalog) = 2
    /\ catalog[1].state = "missing"
    /\ catalog[1].asset_type = "crypto"
    /\ catalog[2].asset_type = "crypto"
    /\ catalog[1].symbol = SymBTC
    /\ catalog[2].symbol = SymBTC
    /\ "crypto" \in DOMAIN byAssetType
    /\ byAssetType["crypto"][TickBTC].feedId = 2

\* whether entry i of the catalog is stable, parseable and of a configured type
Qualifies(i) ==
    /\ catalog[i].state = "stable"
    /\ catalog[i].asset_type \in DOMAIN ASSET_TYPE_MAP
    /\ ASSET_TYPE_MAP[catalog[i].asset_type] \in DOMAIN current.assetTypes
    /\ parseTickerName(catalog[i].symbol) # Null

SameSlot(i, j) ==
    /\ ASSET_TYPE_MAP[catalog[i].asset_type] = ASSET_TYPE_MAP[catalog[j].asset_type]
    /\ parseTickerName(catalog[i].symbol) = parseTickerName(catalog[j].symbol)

\* C9: of the entries that normalize to one (asset type, ticker), the directory
\* holds the feed id of the earliest.
C9_FirstSeenWins ==
    Ingested =>
      \A i \in 1..Len(catalog) :
        Qualifies(i) =>
          LET at == ASSET_TYPE_MAP[catalog[i].asset_type]
              t == parseTickerName(catalog[i].symbol).ticker
              first == CHOOSE k \in 1..i :
                         /\ Qualifies(k) /\ SameSlot(k, i)
                         /\ \A m \in 1..(k - 1) : ~(Qualifies(m) /\ SameSlot(m, i))
          IN /\ at \in DOMAIN byAssetType
             /\ t \in DOMAIN byAssetType[at]
             /\ byAssetType[at][t].feedId = first

C9_Witness ==
    /\ phase = "ingested"
    /\ Len(catalog) = 2
    /\ catalog[1] = Item("stable", "metal", SymXAU, 1)
    /\ catalog[2] = Item("stable", "commodity", SymXAU, 2)
    /\ "commodity" \in DOMAIN byAssetType
    /\ byAssetType["commodity"][TickXAU].feedId = 1

\* the asset types a directory can hold, configured or not
DirectoryTypes == {"crypto", "commodity", "metal"}

\* C10: a ticker is a key of the listing of an asset type exactly when the lookup
\* finds it, and then with the feed id of the listing.
C10_LookupMatchesListing ==
    \A at \in DirectoryTypes, t \in TickerInputs :
      LET listing == getTickersForAssetType(at)
          info == getTickerInfo(at, t)
      IN /\ (t \in Keys(listing)) <=> ~Falsy(info)
         /\ (t \in Keys(listing)) => info = listing[t]

\* the feed ids the directory holds
FeedIds ==
    UNION {{byAssetType[at][t].feedId : t \in DOMAIN byAssetType[at]} :
             at \in DOMAIN byAssetType}

\* C11: the directory's asset types are configured ones; an entry whose upstream
\* type has no alias, or whose alias is not configured, leaves nothing; a metal
\* entry is held under commodity when commodity is configured, never under metal.
C11_OnlyConfiguredTypes ==
    Ingested =>
      /\ DOMAIN byAssetType \subseteq DOMAIN current.assetTypes
      /\ "metal" \notin DOMAIN byAssetType
      /\ \A i \in 1..Len(catalog) :
            LET up == catalog[i].asset_type
            IN /\ (\/ up \notin DOMAIN ASSET_TYPE_MAP
                   \/ ASSET_TYPE_MAP[up] \notin DOMAIN current.assetTypes)
                    => i \notin FeedIds
               /\ (Qualifies(i) /\ up = "metal") =>
                    /\ "commodity" \in DOMAIN byAssetType
                    /\ parseTickerName(catalog[i].symbol).ticker
                         \in DOMAIN byAssetType["commodity"]

C11_Witness ==
    /\ Ingested
    /\ current = DocMetal.value
    /\ Len(catalog) = 2
    /\ catalog[1] = Item("stable", "constructor", SymBTC, 1)
    /\ catalog[2] = Item("stable", "metal", SymXAU, 2)
    /\ DOMAIN byAssetType = {"commodity"}
    /\ byAssetType["commodity"][TickXAU].feedId = 2

\* whether symbol is ...d.BASE/QUOTE with s its first slash, d the last dot before
\* it, and both parts non-empty
SplitsAt(symbol, d, s) ==
    /\ 1 <= d /\ d + 1 < s /\ s < Len(symbol)
    /\ symbol[d] = "." /\ symbol[s] = "/"
    /\ \A i \in 1..(s - 1) : symbol[i] # "/"
    /\ \A i \in (d + 1)..(s - 1) : symbol[i] # "."

SymCryptoBTCUSD == <<"C", "r", "y", "p", "t", "o", ".", "B", "T", "C", "/", "U", "S", "D">>

SymEquityUSAAPLUSD ==
    <<"E", "q", "u", "i", "t", "y", ".", "U", "S", ".", "A", "A", "P", "L", "/", "U", "S", "D">>

\* C12: a symbol parses exactly when it has a slash, a dot before it, and a
\* non-empty base and quote; the ticker is then BASE-QUOTE, and this is the only
\* ticker the entry puts in the directory; an entry that does not parse puts none.
C12_ParseTickerName ==
    /\ parseTickerName(SymCryptoBTCUSD) = [ticker |-> <<"B", "T", "C", "-", "U", "S", "D">>]
    /\ parseTickerName(SymEquityUSAAPLUSD)
         = [ticker |-> <<"A", "A", "P", "L", "-", "U", "S", "D">>]
    /\ (Ingested /\ Len(catalog) = 1) =>
         LET symbol == catalog[1].symbol
             cuts == {c \in (1..Len(symbol)) \X (1..Len(symbol)) :
                        SplitsAt(symbol, c[1], c[2])}
         IN /\ Cardinality(cuts) <= 1
            /\ (cuts = {}) <=> (parseTickerName(symbol) = Null)
            /\ (cuts = {}) => byAssetType = <<>>
            /\ \A c \in cuts :
                  LET ticker == SubSeq(symbol, c[1] + 1, c[2] - 1) \o <<"-">>
                                \o SubSeq(symbol, c[2] + 1, Len(symbol))
                  IN /\ parseTickerName(symbol) = [ticker |-> ticker]
                     /\ DOMAIN byAssetType = {"crypto"}
                     /\ DOMAIN byAssetType["crypto"] = {ticker}

C12_Witness ==
    /\ Ingested
    /\ catalog = <<Item("stable", "crypto", <<".", ".", "A", "/", "B">>, 1)>>
    /\ byAssetType["crypto"][<<"A", "-", "B">>].feedId = 1

\* the lexical form the claims give a ticker: uppercase letters or digits, a
\* hyphen, uppercase letters or digits
WellFormed(body) ==
    /\ "ticker" \in DOMAIN body
    /\ \E i \in 2..(Len(body.ticker) - 1) :
          /\ body.ticker[i] = "-"
          /\ \A j \in (1..Len(body.ticker)) \ {i} :
                body.ticker[j] \in UpperCase \cup Digits

\* C13: the purchase handler answers 400 VALIDATION_ERROR exactly when the body
\* has no ticker or the ticker is not of the lexical form.
C13_ValidationErrorIffMalformed ==
    Handled => ((res.out = ValidationError) <=> ~WellFormed(res.req.body))

\* C14: a well-formed ticker that the directory does not hold under the route's
\* asset type gets 400 INVALID_TICKER and no credential; the answer lists the
\* first AvailableLimit tickers of that asset type, and their number when there
\* are more.
C14_UnknownTickerHint ==
    LET listing == getTickersForAssetType(res.req.route.assetType)
    IN (/\ Handled
        /\ WellFormed(res.req.body)
        /\ res.req.body.ticker \notin Keys(listing)) =>
         /\ res.out.status = 400
         /\ res.out.code = "INVALID_TICKER"
         /\ "accessToken" \notin DOMAIN res.out
         /\ Range(res.out.available) \subseteq Keys(listing)
         /\ Cardinality(Range(res.out.available)) = Len(res.out.available)
         /\ Len(res.out.available)
              = IF Cardinality(Keys(listing)) < AvailableLimit
                THEN Cardinality(Keys(listing)) ELSE AvailableLimit
         /\ \A t \in Range(res.out.available), u \in Keys(listing) :
               u \notin Range(res.out.available)
                 => listing[t].feedId < listing[u].feedId
         /\ IF Cardinality(Keys(listing)) > AvailableLimit
            THEN res.out.total = Num(Cardinality(Keys(listing)))
            ELSE res.out.total = Undefined

\* the step of the purchase handler: the one that ends a request the gate passed
HandlerStep == req # NoReq /\ req.stage = "authorized" /\ req' = NoReq

\* C15: the audit log grows by exactly one record in the step that answers a
\* purchase with 200, a record with the payer, the ticker, the feed id, the
\* route's asset type, channel and duration, and the price; it grows in no other
\* step, so there are as many records as fulfilled purchases.
C15_OneAuditRecordPerPurchase ==
    [][IF HandlerStep /\ res'.out.status = 200
       THEN /\ Len(audit') = Len(audit) + 1
            /\ SubSeq(audit', 1, Len(audit)) = audit
            /\ LET rec == audit'[Len(audit')]
               IN /\ rec.wallet = payerWallet(req)
                  /\ rec.ticker = req.body.ticker
                  /\ rec.feedId = res'.out.feedId
                  /\ rec.feedId
                       = getTickerInfo(req.route.assetType, req.body.ticker).feedId
                  /\ rec.assetType = req.route.assetType
                  /\ rec.channel = req.route.channel
                  /\ rec.duration = req.route.duration
                  /\ rec.pricePaid = res'.out.pricePaid
                  /\ ~Falsy(rec.pricePaid)
       ELSE audit' = audit]_vars

\* C16: a fulfilled purchase answers with the configured access token and
\* endpoint list, with the feed id the directory holds for the route's asset type
\* and the ticker, alone in priceFeedIds, and with the stream name the snapshot
\* configures for the route's channel.
C16_CredentialContents ==
    [][(HandlerStep /\ res'.out.status = 200) =>
         LET out == res'.out
             info == getTickerInfo(req.route.assetType, req.body.ticker)
         IN /\ out.accessToken = PYTH_PRO_ACCESS_TOKEN
            /\ out.websocketUrls = PYTH_PRO_WS_URLS
            /\ out.ticker = req.body.ticker
            /\ ~Falsy(info)
            /\ out.feedId = info.feedId
            /\ out.subscribe.priceFeedIds = <<info.feedId>>
            /\ req.route.channel \in DOMAIN current.channels
            /\ out.subscribe.channel = current.channels[req.route.channel].wsChannel]_vars

\* the server has routes, listens, or has seen a request
Serving == phase = "listening" \/ routes # <<>> \/ req # NoReq \/ res # NoRes

\* C17: whenever routes are registered, the server listens or a request is seen,
\* the directory is the complete result of ingesting the catalog and is not
\* empty; a process whose ingestion failed has no route, sees no request and
\* stays stopped.
C17_IngestionBeforeListening ==
    /\ [](Serving =>
            /\ phase = "listening"
            /\ \E cfg \in loaded :
                  byAssetType = IngestFrom(catalog, cfg.assetTypes, 1, <<>>)
            /\ DOMAIN byAssetType # {})
    /\ [](phase = "aborted" => ~Serving /\ served = 0 /\ DOMAIN byAssetType = {})
    /\ [][phase = "aborted" => phase' = "aborted"]_vars

PricingStep == served' # served /\ req' = req

\* C19: a pricing request whose assetType filter is no key of the snapshot's
\* asset types gets 400 INVALID_ASSET_TYPE; one whose assetType filter is absent
\* or a key and whose channel filter is no key of the channels gets 400
\* INVALID_CHANNEL; neither answer holds a pricing matrix.
C19_InvalidFilterRejected ==
    [][(PricingStep /\ ~res'.req.query.repeated) =>
         LET q == res'.req.query
             out == res'.out
             badAssetType == q.assetType # "" /\ q.assetType \notin DOMAIN current.assetTypes
             badChannel == q.channel # "" /\ q.channel \notin DOMAIN current.channels
         IN /\ badAssetType =>
                 /\ out.status = 400
                 /\ out.code = "INVALID_ASSET_TYPE"
                 /\ "pricing" \notin DOMAIN out
            /\ (badChannel /\ ~badAssetType) =>
                 /\ out.status = 400
                 /\ out.code = "INVALID_CHANNEL"
                 /\ "pricing" \notin DOMAIN out]_vars

\* C20: a pricing request with valid assetType and channel filters and a ticker
\* that no asset type matching the filters holds (the filtered asset type when
\* one is given, every configured one otherwise) gets 400 INVALID_TICKER, never
\* a 200.
C20_TickerOutsideFilterRejected ==
    [][(PricingStep /\ ~res'.req.query.repeated) =>
         LET q == res'.req.query
             out == res'.out
             matching == IF q.assetType = "" THEN DOMAIN current.assetTypes
                         ELSE {q.assetType}
             tickers == Range(ParseTickers(q.ticker))
         IN (/\ matching \subseteq DOMAIN current.assetTypes
             /\ q.channel \in DOMAIN current.channels \cup {""}
             /\ \E t \in tickers :
                   \A at \in matching : t \notin Keys(getTickersForAssetType(at)))
            => (out.status = 400 /\ out.code = "INVALID_TICKER")]_vars

\* the tickers the directory holds under the configured asset types
AvailableTickers ==
    UNION {Keys(getTickersForAssetType(at)) : at \in DOMAIN current.assetTypes}

\* C21: a pricing request with valid filters and a ticker that no configured
\* asset type holds gets 400 INVALID_TICKER, and the answer lists the available
\* tickers.
C21_UnknownTickerListsAvailable ==
    [][(PricingStep /\ ~res'.req.query.repeated) =>
         LET q == res'.req.query
             out == res'.out
             tickers == Range(ParseTickers(q.ticker))
         IN (/\ q.assetType \in DOMAIN current.assetTypes \cup {""}
             /\ q.channel \in DOMAIN current.channels \cup {""}
             /\ \E t \in tickers : t \notin AvailableTickers)
            => /\ out.status = 400
               /\ out.code = "INVALID_TICKER"
               /\ "available" \in DOMAIN out
               /\ Range(out.available) = AvailableTickers]_vars

C23_RoutesFollowSnapshot ==
    phase = "listening" => routes = getAllRouteConfigs

\* the paths the state machine of a purchase request allows
AllowedPaths ==
    {<<"Received", "Rejected">>,
     <<"Received", "Validated", "Rejected">>,
     <<"Received", "Validated", "Priced", "Authorized", "Fulfilled">>}

\* C24: a purchase request the handler takes up passes through Received,
\* Validated, Priced, Authorized, Fulfilled in this order, or leaves from
\* Received with the validation error or from Validated with the unknown-ticker
\* error; it gets exactly one response, a 200 exactly when it ends Fulfilled,
\* and then it has been Validated and Priced.
C24_RequestStateMachine ==
    [][/\ HandlerStep =>
            /\ res' # NoRes
            /\ res'.req = req
            /\ res'.steps \in AllowedPaths
            /\ (res'.steps = <<"Received", "Rejected">>)
                 <=> (res'.out = ValidationError)
            /\ (res'.steps = <<"Received", "Validated", "Rejected">>)
                 <=> (res'.out.status = 400 /\ res'.out.code = "INVALID_TICKER")
            /\ (res'.steps[Len(res'.steps)] = "Fulfilled") <=> (res'.out.status = 200)
            /\ (res'.out.status = 200) => ~Falsy(res'.out.pricePaid)
       /\ (res' # res /\ res' # NoRes /\ res'.req.kind = "purchase") =>
            (req # NoReq /\ req' = NoReq /\ res'.req = req)]_vars

\* the snapshot with its durations list rearranged by the permutation f
Permuted(cfg, f) ==
    [cfg EXCEPT !.durations = [i \in 1..Len(cfg.durations) |-> cfg.durations[f[i]]]]

\* the tier route i of the table was generated from: the innermost loop runs
\* over the durations list
TierOf(cfg, i) == cfg.durations[((i - 1) % Len(cfg.durations)) + 1]

\* C25: whatever the order of the durations list, computePrice gives the same
\* result for every triple, and the route of every tier has the price of that
\* tier's own base price.
C25_PricingIgnoresDurationOrder ==
    /\ current # Null =>
         \A f \in Permutations(1..Len(current.durations)) :
           \A at \in AssetTypeInputs, ch \in ChannelInputs, d \in DurationInputs :
              computePriceIn(Permuted(current, f), at, ch, d) = computePrice(at, ch, d)
    /\ phase = "listening" =>
         \A i \in 1..Len(routes) :
            routes[i].price
              = Formatted(RoundToCents(Times3(
                  Num(TierOf(current, i).basePriceDollars),
                  Num(current.assetTypes[routes[i].assetType].multiplier),
                  Num(current.channels[routes[i].channel].multiplier))))

\* a step of a request: its arrival, the decision of the gate, a handler
RequestStep == req' # req \/ res' # res \/ audit' # audit \/ served' # served

\* C26: no step of a request, whether it ends in a 200 or in an error, changes
\* the pricing snapshot, the directory or the route table; the snapshot changes
\* only in the initial load and in the file-change callback, the directory only
\* in the ingestion, the route table only in createApp.
C26_HandlersWriteNoSharedState ==
    [][/\ RequestStep =>
            (current' = current /\ byAssetType' = byAssetType /\ routes' = routes)
       /\ current' # current => (phase = "boot" \/ notice' # notice)
       /\ byAssetType' # byAssetType => (phase = "loaded" /\ phase' = "ingested")
       /\ routes' # routes => (phase = "ingested" /\ phase' = "listening")]_vars

C26_Witness ==
    /\ Handled
    /\ res.out.status = 400
    /\ res.out.code = "INVALID_TICKER"
    /\ current = DocB.value
    /\ routes = getAllRouteConfigsIn(DocA.value)
    /\ "commodity" \in DOMAIN byAssetType
    /\ byAssetType = IngestFrom(catalog, DocA.value.assetTypes, 1, <<>>)

\* the request on the given route with the given body and nothing else: no
\* payer attribute, no payer header
BareRequest(route, body) ==
    [kind |-> "purchase", route |-> route, body |-> body,
     payerAddress |-> "none", header |-> "none", stage |-> "authorized"]

\* an audit record but for its payer
SansWallet(rec) == [rec EXCEPT !.wallet = "any"]

C28_PricePaidIsGatePrice ==
    [][(HandlerStep /\ res'.out.status = 200) =>
         /\ req.route \in Range(routes)
         /\ res'.out.pricePaid = req.route.price
         /\ Len(audit') = Len(audit) + 1
         /\ audit'[Len(audit')].pricePaid = req.route.price]_vars

\* C29: every entry of the matrix of a pricing response advertises the path of
\* a registered purchase endpoint, at the price the payment gate charges on it.
C29_AdvertisedRoutesAreRegistered ==
    [][(PricingStep /\ res'.out.status = 200) =>
         \A i \in 1..Len(res'.out.pricing) :
            \E j \in 1..Len(routes) :
               /\ routes[j].routePath = res'.out.pricing[i].purchaseUrl
               /\ routes[j].price = res'.out.pricing[i].price]_vars

\* a formatted price of at least one cent
AtLeastOneCent(price) ==
    /\ "nan" \notin DOMAIN price
    /\ price.whole > 0 \/ price.d1 > 0 \/ price.d2 > 0

\* C30: every route of a schema-valid snapshot, and so every price handed to
\* the payment gate, is at least one cent.
C30_RoutePricesArePositive ==
    /\ current # Null /\ SchemaValid(current) =>
         \A i \in 1..Len(getAllRouteConfigs) : AtLeastOneCent(getAllRouteConfigs[i].price)
    /\ \A i \in 1..Len(routes) : AtLeastOneCent(routes[i].price)

====
